---- MODULE Spec2Model ----
(***************************************************************************)
(* Hierarchical data rollup (UnityFX pattern library, "Hierarchical Data   *)
(* Rollup with SharePoint Lookup Fields"): the hierarchy resolver, the     *)
(* level <-> score conversions and the aggregation of field, section and   *)
(* overall scores.                                                         *)
(*                                                                         *)
(* Numbers.  Every score and average is an integer number of HUNDREDTHS    *)
(* (3.33 is 333).  The code computes in IEEE doubles; the model computes   *)
(* the exact rational and lets the double's representation error decide    *)
(* only where it can: exactly at a discontinuity of Math.round (a tie      *)
(* x.xx5) or of Math.floor (a whole number), and only when the operands    *)
(* are not exactly representable.  There the model admits both outcomes.   *)
(***************************************************************************)
EXTENDS Integers, Sequences, FiniteSets, TLC

VARIABLES
    organizationStructure,  \* IOrganizationStructure[] kept in component state
    selectedOrg,            \* argument of the last resolver call
    rollupOrgs,             \* result of the last getRollupOrganizations call
    stack,                  \* call stack of a running getAllDescendants
    descendants,            \* result of the last getAllDescendants call
    maxDepthArg,            \* maxDepth argument of the last getAllDescendants call
    assessmentRecords,      \* records the bulk fetch returned
    fieldAverages,          \* local of loadRollupAssessmentData (logged)
    sections,               \* component state set by setSections
    overallAverage,         \* component state set by setOverallAverage
    overallScore,           \* component state set by setOverallScore
    spHttpClient,           \* whether the SharePoint client prop is set
    siteUrl,                \* the site URL prop ("" when not set)
    response,               \* how the record store answers the bulk query
    storeItems,             \* data.value of an OK answer
    requests,               \* the $filter of every query sent to the record store
    isLoadingAssessmentData,\* component state set by setIsLoadingAssessmentData
    fetchOutcome,           \* how fetchRollupAssessmentData settled
    levelArg,               \* argument of getScoreFromAssessmentLevel
    scoreArg,               \* argument of getAssessmentLevelFromScore (hundredths)
    scoreResult,            \* last result of getScoreFromAssessmentLevel
    levelResult,            \* last result of getAssessmentLevelFromScore
    calls,                  \* running activations of loadRollupAssessmentData
    context,                \* WebPartContext handed to PermissionChecker
    method,                 \* the PermissionChecker method called
    result,                 \* how the PermissionChecker promise settled
    item,                   \* item prop of EditForm
    formState,              \* EditForm state
    initialStateRef,        \* EditForm ref: serialized initial state
    showDiscardConfirm,     \* EditForm state
    isEditModalOpen,        \* parent state
    editModalDismissAttempt,\* parent state
    lastEvent,              \* the handler that ran last in the form pattern
    pc                      \* position of the operation being modelled

vars == <<organizationStructure, selectedOrg, rollupOrgs, stack, descendants,
          maxDepthArg, assessmentRecords, fieldAverages, sections,
          overallAverage, overallScore, spHttpClient, siteUrl, response,
          storeItems, requests, isLoadingAssessmentData, fetchOutcome,
          levelArg, scoreArg, scoreResult, levelResult, calls, context,
          method, result, item, formState, initialStateRef, showDiscardConfirm,
          isEditModalOpen, editModalDismissAttempt, lastEvent, pc>>

resolverVars == <<organizationStructure, selectedOrg, rollupOrgs, stack,
                  descendants, maxDepthArg>>
aggregateVars == <<assessmentRecords, fieldAverages, sections,
                   overallAverage, overallScore>>
fetchVars == <<spHttpClient, siteUrl, response, storeItems, requests,
               isLoadingAssessmentData, fetchOutcome>>
convertVars == <<levelArg, scoreArg, scoreResult, levelResult>>
permissionVars == <<context, method, result>>
formVars == <<item, formState, initialStateRef, showDiscardConfirm,
              isEditModalOpen, editModalDismissAttempt, lastEvent>>

----------------------------------------------------------------------------
(* Values *)

\* null / undefined of a record column or of ParentOrg
Null == "<null>"

\* JavaScript truthiness of a string-or-null value
Truthy(v) == v # Null /\ v # ""

RECURSIVE SumSeq(_)
SumSeq(s) == IF s = <<>> THEN 0 ELSE Head(s) + SumSeq(Tail(s))

EmptyMap == [x \in {} |-> 0]

Put(f, k, v) == [x \in (DOMAIN f) \cup {k} |-> IF x = k THEN v ELSE f[x]]

----------------------------------------------------------------------------
(* Score Normalizer *)

KnownLevels == {"Insufficient", "Beginning", "Developing", "Innovative", "Optimal"}

\* a property every object literal inherits from Object.prototype
PrototypeKeys == {"constructor", "toString", "valueOf"}

\* what levelMap[level] yields for an inherited key: a function, not a number
NotANumber == -1

\* faulty variant: the table numbered from 0, so Insufficient falls to `|| 1`
ScoreFromZeroBasedTable(level) ==
    CASE level = "Insufficient" -> 1
      [] level = "Beginning"    -> 1
      [] level = "Developing"   -> 2
      [] level = "Innovative"   -> 3
      [] level = "Optimal"      -> 4
      [] level \in PrototypeKeys -> NotANumber
      [] OTHER                  -> 1

\* levelMap[level] || 1
getScoreFromAssessmentLevel(level) ==
    CASE level = "Insufficient" -> 1
      [] level = "Beginning"    -> 2
      [] level = "Developing"   -> 3
      [] level = "Innovative"   -> 4
      [] level = "Optimal"      -> 5
      [] level \in PrototypeKeys -> NotANumber
      [] OTHER                  -> 1

\* faulty variant: the boundaries tested with > instead of >=
LevelAboveBoundary(score) ==
    IF score > 450 THEN "Optimal"
    ELSE IF score > 350 THEN "Innovative"
    ELSE IF score > 250 THEN "Developing"
    ELSE IF score > 150 THEN "Beginning"
    ELSE "Insufficient"

\* score in hundredths; a score that is not a number fails every comparison
getAssessmentLevelFromScore(score) ==
    IF score >= 450 THEN "Optimal"
    ELSE IF score >= 350 THEN "Innovative"
    ELSE IF score >= 250 THEN "Developing"
    ELSE IF score >= 150 THEN "Beginning"
    ELSE "Insufficient"

----------------------------------------------------------------------------
(* Double arithmetic at the two discontinuities *)

\* every operand (in hundredths) is a multiple of 0.25, hence an exact double
ExactDoubles(terms) == \A i \in 1..Len(terms) : terms[i] % 25 = 0

\* Math.round(mean * 100) / 100 for mean = total / count, total in hundredths:
\* the possible results in hundredths.  Off a tie the double's error (1e-13)
\* cannot move the result.  On a tie Math.round rounds half up when the
\* mean is computed exactly (exact operands, mean a multiple of 1/8);
\* otherwise the double lies on either side of the tie.
JsRound2(total, count, exact) ==
    LET q == total \div count
        r == total % count
    IN  IF 2 * r < count THEN {q}
        ELSE IF 2 * r > count THEN {q + 1}
        ELSE IF exact /\ (8 * total) % (100 * count) = 0 THEN {q + 1}
        ELSE {q, q + 1}

\* faulty variant: Math.round(totalAverage) in place of Math.floor
JsRoundToWhole(total, count, exact) ==
    {(total + 50 * count) \div (100 * count)}

\* faulty variant: Math.ceil(totalAverage) in place of Math.floor
JsCeil(total, count, exact) ==
    {(total + 100 * count - 1) \div (100 * count)}

\* Math.floor(mean) for mean = total / count, total in hundredths: the
\* possible results (a whole number).  A mean that is exactly a whole number
\* m may be computed as m - 1ulp when three or more inexact doubles are
\* summed, e.g. (1 + 3.03 + 1.97) / 3 = 1.9999999999999998; the sum of two
\* averages between 1.00 and 5.00 never falls short.
JsFloor(total, count, exact) ==
    LET m == total \div (100 * count)
    IN  IF total % (100 * count) = 0 /\ ~exact /\ count >= 3
        THEN {m - 1, m}
        ELSE {m}

----------------------------------------------------------------------------
(* Aggregator configuration: getFieldMappings() and getInitialSections()   *)
(* are referenced by the pattern but not listed in it; a small assessment  *)
(* of two sections stands for the 6-section KMA form.                      *)

\* questionId -> SharePoint column, in Object.keys order
getFieldMappings ==
    << <<"sg-vs-1", "SG_VS_KMVisionAligned">>,
       <<"sg-vs-2", "SG_VS_StrategyComm">>,
       <<"cp-ksc-1", "CP_KSC_SharingCulture">> >>

Columns == {getFieldMappings[i][2] : i \in 1..Len(getFieldMappings)}

\* question.id.indexOf('-header') !== -1, on the ids of the configuration
IsHeaderId(id) == id \in {"sg-vs-header", "cp-ksc-header"}

Question(id, level, score) == [id |-> id, level |-> level, score |-> score]

getInitialSections ==
    << [id |-> "sg",
        questions |-> << Question("sg-vs-header", "", 0),
                         Question("sg-vs-1", "Select Organization", 0),
                         Question("sg-vs-2", "Select Organization", 0) >>,
        averageScore |-> 0],
       [id |-> "cp",
        questions |-> << Question("cp-ksc-header", "", 0),
                         Question("cp-ksc-1", "Select Organization", 0) >>,
        averageScore |-> 0] >>

----------------------------------------------------------------------------
(* Aggregator *)

\* faulty variant: the `if (fieldValue)` test left out, so an unset column scores 1
RECURSIVE CollectValuesUnchecked(_, _)
CollectValuesUnchecked(fieldName, records) ==
    IF records = <<>> THEN <<>>
    ELSE <<getScoreFromAssessmentLevel(Head(records)[fieldName])>>
            \o CollectValuesUnchecked(fieldName, Tail(records))

\* faulty variant: a record without a value for the column counted as 0
RECURSIVE CollectValuesCountingUnset(_, _)
CollectValuesCountingUnset(fieldName, records) ==
    IF records = <<>> THEN <<>>
    ELSE LET fieldValue == Head(records)[fieldName]
             numericValue == getScoreFromAssessmentLevel(fieldValue)
             rest == CollectValuesCountingUnset(fieldName, Tail(records))
         IN  IF ~Truthy(fieldValue) THEN <<0>> \o rest
             ELSE IF numericValue > 0 THEN <<numericValue>> \o rest
             ELSE rest

\* the values collected for one column: assessmentRecords.forEach(...)
RECURSIVE CollectValues(_, _)
CollectValues(fieldName, records) ==
    IF records = <<>> THEN <<>>
    ELSE LET fieldValue == Head(records)[fieldName]
             numericValue == getScoreFromAssessmentLevel(fieldValue)
             rest == CollectValues(fieldName, Tail(records))
         IN  IF Truthy(fieldValue) /\ numericValue > 0
             THEN <<numericValue>> \o rest
             ELSE rest

\* Math.round(average * 100) / 100 of values.reduce(...) / values.length
RoundedAverage(values) ==
    JsRound2(100 * SumSeq(values), Len(values), TRUE)

\* Object.keys(fieldMappings).forEach(...): the possible fieldAverages objects
RECURSIVE FieldAveragesFrom(_, _)
FieldAveragesFrom(mappings, records) ==
    IF mappings = <<>> THEN {EmptyMap}
    ELSE LET questionId == Head(mappings)[1]
             fieldName == Head(mappings)[2]
             values == CollectValues(fieldName, records)
             rest == FieldAveragesFrom(Tail(mappings), records)
         IN  IF Truthy(fieldName) /\ Len(values) > 0
             THEN {Put(f, questionId, a) : f \in rest, a \in RoundedAverage(values)}
             ELSE rest

calculateFieldAverages(records) == FieldAveragesFrom(getFieldMappings, records)

\* faulty variant: the level taken from the whole part of the average
UpdateQuestionByWholePart(question, fieldAvgs) ==
    IF question.id \in DOMAIN fieldAvgs
    THEN LET avgScore == fieldAvgs[question.id]
         IN  [question EXCEPT
                !.level = getAssessmentLevelFromScore(100 * (avgScore \div 100)),
                !.score = avgScore]
    ELSE [question EXCEPT !.score = IF IsHeaderId(question.id) THEN question.score ELSE 0]

\* section.questions.map(question => ...)
UpdateQuestion(question, fieldAvgs) ==
    IF question.id \in DOMAIN fieldAvgs
    THEN LET avgScore == fieldAvgs[question.id]
             assessmentLevel ==
                 IF avgScore >= 450 THEN "Optimal"
                 ELSE IF avgScore >= 350 THEN "Innovative"
                 ELSE IF avgScore >= 250 THEN "Developing"
                 ELSE IF avgScore >= 150 THEN "Beginning"
                 ELSE "Insufficient"
         IN  [question EXCEPT !.level = assessmentLevel, !.score = avgScore]
    ELSE [question EXCEPT !.score = IF IsHeaderId(question.id) THEN question.score ELSE 0]

\* faulty variant: headers not filtered out (Pitfall 5)
ActualQuestionWithHeaders(q) == q.score > 0

\* updatedQuestions.filter(q => q.id.indexOf('-header') === -1 && q.score > 0)
ActualQuestion(q) == ~IsHeaderId(q.id) /\ q.score > 0

ScoresOf(questions) == [i \in 1..Len(questions) |-> questions[i].score]

\* Math.round(sectionAverage * 100) / 100: the possible averageScore values
SectionAverage(updatedQuestions) ==
    LET actualQuestions == SelectSeq(updatedQuestions, ActualQuestion)
        scores == ScoresOf(actualQuestions)
    IN  IF Len(actualQuestions) > 0
        THEN JsRound2(SumSeq(scores), Len(scores), ExactDoubles(scores))
        ELSE {0}

UpdateSection(section, fieldAvgs) ==
    LET updatedQuestions ==
            [i \in 1..Len(section.questions) |-> UpdateQuestion(section.questions[i], fieldAvgs)]
    IN  {[section EXCEPT !.questions = updatedQuestions, !.averageScore = a] :
            a \in SectionAverage(updatedQuestions)}

\* the possible results of updateSectionsWithRollupAverages
RECURSIVE updateSectionsWithRollupAverages(_, _)
updateSectionsWithRollupAverages(currentSections, fieldAvgs) ==
    IF currentSections = <<>> THEN {<<>>}
    ELSE {<<s>> \o rest :
            s \in UpdateSection(Head(currentSections), fieldAvgs),
            rest \in updateSectionsWithRollupAverages(Tail(currentSections), fieldAvgs)}

\* faulty variant: sections without data not filtered out
AnyAverage(avg) == TRUE

\* .filter(avg => !isNaN(avg) && avg > 0)
PositiveAverage(avg) == avg > 0

\* faulty variant: no guard on an empty overall list, 0 / 0 is NaN
calculateOverallScoresUnguarded(sectionsData) ==
    LET sectionAverages ==
            SelectSeq([i \in 1..Len(sectionsData) |-> sectionsData[i].averageScore],
                      PositiveAverage)
        total == SumSeq(sectionAverages)
        count == Len(sectionAverages)
        exact == ExactDoubles(sectionAverages)
    IN  IF count = 0
        THEN {[average |-> NotANumber, score |-> NotANumber]}
        ELSE {[average |-> a, score |-> f] :
                a \in JsRound2(total, count, exact),
                f \in JsFloor(total, count, exact)}

\* calculateOverallScores: the possible (overallAverage, overallScore) pairs
calculateOverallScores(sectionsData) ==
    LET sectionAverages ==
            SelectSeq([i \in 1..Len(sectionsData) |-> sectionsData[i].averageScore],
                      PositiveAverage)
        total == SumSeq(sectionAverages)
        count == Len(sectionAverages)
        exact == ExactDoubles(sectionAverages)
    IN  IF count = 0
        THEN {[average |-> 0, score |-> 0]}
        ELSE {[average |-> a, score |-> f] :
                a \in JsRound2(total, count, exact),
                f \in JsFloor(total, count, exact)}

\* the "no records" branch of loadRollupAssessmentData
DefaultSections ==
    [i \in 1..Len(getInitialSections) |->
        [getInitialSections[i] EXCEPT
            !.questions = [j \in 1..Len(getInitialSections[i].questions) |->
                [getInitialSections[i].questions[j] EXCEPT
                    !.level = "Select Organization", !.score = 0]],
            !.averageScore = 0]]

----------------------------------------------------------------------------
(* Hierarchy Resolver *)

Unit(title, parent) == [Title |-> title, ParentOrg |-> parent]

\* faulty variant: a unit without parent taken for a child of every unit
RECURSIVE DirectChildrenLoose(_, _)
DirectChildrenLoose(parentOrg, orgStructure) ==
    IF orgStructure = <<>> THEN <<>>
    ELSE IF Head(orgStructure).ParentOrg \in {parentOrg, Null}
         THEN <<Head(orgStructure).Title>> \o DirectChildrenLoose(parentOrg, Tail(orgStructure))
         ELSE DirectChildrenLoose(parentOrg, Tail(orgStructure))

\* orgStructure.filter(org => org.ParentOrg === parentOrg).map(org => org.Title)
RECURSIVE DirectChildren(_, _)
DirectChildren(parentOrg, orgStructure) ==
    IF orgStructure = <<>> THEN <<>>
    ELSE IF Head(orgStructure).ParentOrg = parentOrg
         THEN <<Head(orgStructure).Title>> \o DirectChildren(parentOrg, Tail(orgStructure))
         ELSE DirectChildren(parentOrg, Tail(orgStructure))

\* directChildren.forEach(child => children.push(...grandchildren))
RECURSIVE Grandchildren(_, _)
Grandchildren(directChildren, orgStructure) ==
    IF directChildren = <<>> THEN <<>>
    ELSE DirectChildren(Head(directChildren), orgStructure)
            \o Grandchildren(Tail(directChildren), orgStructure)

\* faulty variant: each child followed at once by its own children
RECURSIVE ChildrenDepthFirst(_, _)
ChildrenDepthFirst(directChildren, orgStructure) ==
    IF directChildren = <<>> THEN <<>>
    ELSE <<Head(directChildren)>>
            \o DirectChildren(Head(directChildren), orgStructure)
            \o ChildrenDepthFirst(Tail(directChildren), orgStructure)

getChildOrganizationsDepthFirst(parentOrg, orgStructure) ==
    ChildrenDepthFirst(DirectChildren(parentOrg, orgStructure), orgStructure)

getChildOrganizations(parentOrg, orgStructure) ==
    LET directChildren == DirectChildren(parentOrg, orgStructure)
    IN  directChildren \o Grandchildren(directChildren, orgStructure)

\* faulty variant: the selected organization pushed after its children
getRollupOrganizationsRootLast(org, orgStructure) ==
    IF Len(orgStructure) > 0
    THEN getChildOrganizations(org, orgStructure) \o <<org>>
    ELSE <<org>>

getRollupOrganizations(org, orgStructure) ==
    IF Len(orgStructure) > 0
    THEN <<org>> \o getChildOrganizations(org, orgStructure)
    ELSE <<org>>

\* faulty variant: the bound tested with > (one level too deep)
DepthExceeded(currentDepth, maxDepth) == currentDepth > maxDepth

\* faulty variant: no bound at all
DepthUnbounded(currentDepth, maxDepth) == FALSE

\* faulty variant: the descent cut off one level early
DepthReachedEarly(currentDepth, maxDepth) == currentDepth + 1 >= maxDepth

\* if (currentDepth >= maxDepth) { console.warn(...); return []; }
DepthReached(currentDepth, maxDepth) == currentDepth >= maxDepth

\* the activation of getAllDescendants(parentOrg, orgStructure, maxDepth,
\* currentDepth) up to its forEach: the children still to descend into and
\* the descendants pushed so far
Activation(parentOrg, orgStructure, maxDepth, currentDepth) ==
    IF DepthReached(currentDepth, maxDepth)
    THEN [parentOrg |-> parentOrg, currentDepth |-> currentDepth,
          todo |-> <<>>, descendants |-> <<>>]
    ELSE LET directChildren == DirectChildren(parentOrg, orgStructure)
         IN  [parentOrg |-> parentOrg, currentDepth |-> currentDepth,
              todo |-> directChildren, descendants |-> directChildren]

----------------------------------------------------------------------------
(* Record Selector *)

\* organization values for which loadRollupAssessmentData returns at once
Placeholders == {"", "Select", "Loading..."}

\* the characters of a unit name, cut at its apostrophes
Pieces(org) ==
    CASE org = "O'Reilly Division"    -> <<"O", "'", "Reilly Division">>
      [] org = "Men's & Women's Wear" -> <<"Men", "'", "s & Women", "'", "s Wear">>
      [] OTHER                        -> <<org>>

\* `Organization eq '${org}'`
OrgClause(org) == <<"Organization eq ", "'">> \o Pieces(org) \o <<"'">>

\* rollupOrgs.map(org => `Organization eq '${org}'`).join(' or ')
RECURSIVE orgFilter(_)
orgFilter(orgs) ==
    IF orgs = <<>> THEN <<>>
    ELSE IF Len(orgs) = 1 THEN OrgClause(Head(orgs))
    ELSE OrgClause(Head(orgs)) \o <<" or ">> \o orgFilter(Tail(orgs))

\* faulty variant: one query per unit of the rollup set (N+1)
QueryPerUnit(orgs) == [i \in 1..Len(orgs) |-> OrgClause(orgs[i])]

\* the $filter of each spHttpClient.get that fetchRollupAssessmentData issues
QueriesSent(orgs) == <<orgFilter(orgs)>>

\* if (!spHttpClient || !siteUrl || rollupOrgs.length === 0) return [];
CannotFetch(orgs) == ~spHttpClient \/ siteUrl = "" \/ Len(orgs) = 0

----------------------------------------------------------------------------
(* States outside the part a specification exercises *)

ResolverIdle ==
    /\ organizationStructure = <<>>
    /\ selectedOrg = ""
    /\ rollupOrgs = <<>>
    /\ stack = <<>>
    /\ descendants = <<>>
    /\ maxDepthArg = 0

AggregateIdle ==
    /\ assessmentRecords = <<>>
    /\ fieldAverages = EmptyMap
    /\ sections = getInitialSections
    /\ overallAverage = 0
    /\ overallScore = 0

FetchIdle ==
    /\ spHttpClient = TRUE
    /\ siteUrl = "https://contoso.sharepoint.com/sites/km"
    /\ response = "ok"
    /\ storeItems = <<>>
    /\ requests = <<>>
    /\ isLoadingAssessmentData = FALSE
    /\ fetchOutcome = "none"

ConvertIdle ==
    /\ levelArg = ""
    /\ scoreArg = 0
    /\ scoreResult = 0
    /\ levelResult = ""

OverlapIdle == calls = <<>>

PermissionIdle ==
    /\ context = [user |-> FALSE, displayName |-> "", permissions |-> "none"]
    /\ method = ""
    /\ result = [settled |-> "none", isGroupMember |-> FALSE, error |-> FALSE]

FormIdle ==
    /\ item = 0
    /\ formState = [title |-> "", pendingImageFile |-> Null]
    /\ initialStateRef = <<>>
    /\ showDiscardConfirm = FALSE
    /\ isEditModalOpen = FALSE
    /\ editModalDismissAttempt = FALSE
    /\ lastEvent = ""

----------------------------------------------------------------------------
(* SpecRollup: loadRollupAssessmentData from the records the bulk fetch    *)
(* returned to the component state it sets.                                *)

MaxRecords == 2

\* units of the rollup set the records belong to
RecordUnits == {"HR Department", "Recruiting Team"}

\* values of a choice column: unset, a known level, an unknown label
RecordLabels == {Null, "Optimal", "Bogus"}

AssessmentRecords ==
    [Organization : RecordUnits,
     SG_VS_KMVisionAligned : RecordLabels,
     SG_VS_StrategyComm : RecordLabels,
     CP_KSC_SharingCulture : RecordLabels]

RollupInit ==
    /\ ResolverIdle
    /\ FetchIdle
    /\ ConvertIdle
    /\ OverlapIdle
    /\ PermissionIdle
    /\ FormIdle
    /\ \E n \in 0..MaxRecords : assessmentRecords \in [1..n -> AssessmentRecords]
    /\ fieldAverages = EmptyMap
    /\ sections = getInitialSections
    /\ overallAverage = 0
    /\ overallScore = 0
    /\ pc = "fetched"

\* loadRollupAssessmentData after `await fetchRollupAssessmentData(rollupOrgs)`
LoadRollupAssessmentData ==
    /\ pc = "fetched"
    /\ IF Len(assessmentRecords) = 0
       THEN /\ fieldAverages' = fieldAverages
            /\ sections' = DefaultSections
            /\ \E o \in calculateOverallScores(DefaultSections) :
                  /\ overallAverage' = o.average
                  /\ overallScore' = o.score
       ELSE \E fa \in calculateFieldAverages(assessmentRecords) :
            \E updatedSections \in updateSectionsWithRollupAverages(getInitialSections, fa) :
            \E o \in calculateOverallScores(updatedSections) :
                  /\ fieldAverages' = fa
                  /\ sections' = updatedSections
                  /\ overallAverage' = o.average
                  /\ overallScore' = o.score
    /\ pc' = "done"
    /\ UNCHANGED <<resolverVars, fetchVars, convertVars, calls, permissionVars, formVars, assessmentRecords>>

RollupNext == LoadRollupAssessmentData

SpecRollup == RollupInit /\ [][RollupNext]_vars

----------------------------------------------------------------------------
(* SpecSections: updateSectionsWithRollupAverages on any fieldAverages     *)
(* object and any header scores of the current sections.                   *)

\* field averages that records produce: 1, 5/4, 4/3, 3/2, 5/2, 10/3, 7/2, 9/2, 5
FieldAverageValues == {100, 125, 133, 150, 250, 333, 350, 450, 500}

QuestionIds == {"sg-vs-header", "sg-vs-1", "sg-vs-2", "cp-ksc-header", "cp-ksc-1"}

HeaderScores == {0, 500}

FieldAverageMaps == UNION {[D -> FieldAverageValues] : D \in SUBSET QuestionIds}

\* getInitialSections() with score h on every header pseudo-question
SectionsWithHeaderScore(h) ==
    [i \in 1..Len(getInitialSections) |->
        [getInitialSections[i] EXCEPT
            !.questions = [j \in 1..Len(getInitialSections[i].questions) |->
                IF IsHeaderId(getInitialSections[i].questions[j].id)
                THEN [getInitialSections[i].questions[j] EXCEPT !.score = h]
                ELSE getInitialSections[i].questions[j]]]]

SectionsInit ==
    /\ ResolverIdle
    /\ FetchIdle
    /\ ConvertIdle
    /\ OverlapIdle
    /\ PermissionIdle
    /\ FormIdle
    /\ assessmentRecords = <<>>
    /\ fieldAverages \in FieldAverageMaps
    /\ \E h \in HeaderScores : sections = SectionsWithHeaderScore(h)
    /\ overallAverage = 0
    /\ overallScore = 0
    /\ pc = "call"

UpdateSections ==
    /\ pc = "call"
    /\ sections' \in updateSectionsWithRollupAverages(sections, fieldAverages)
    /\ pc' = "done"
    /\ UNCHANGED <<resolverVars, fetchVars, convertVars, calls, permissionVars, formVars, assessmentRecords, fieldAverages,
                   overallAverage, overallScore>>

SectionsNext == UpdateSections

SpecSections == SectionsInit /\ [][SectionsNext]_vars

----------------------------------------------------------------------------
(* SpecOverall: calculateOverallScores on any list of section averages.    *)

MaxSections == 3

\* 0 (no data) and averages between 1.00 and 5.00
SectionAverageValues ==
    {0, 500} \cup {h \in 100..499 : h % 100 \in {0, 25, 33, 50, 75}}

SectionWithAverage(a) == [id |-> "s", questions |-> <<>>, averageScore |-> a]

OverallInit ==
    /\ ResolverIdle
    /\ FetchIdle
    /\ ConvertIdle
    /\ OverlapIdle
    /\ PermissionIdle
    /\ FormIdle
    /\ assessmentRecords = <<>>
    /\ fieldAverages = EmptyMap
    /\ \E n \in 0..MaxSections : \E avgs \in [1..n -> SectionAverageValues] :
          sections = [i \in 1..n |-> SectionWithAverage(avgs[i])]
    /\ overallAverage = 0
    /\ overallScore = 0
    /\ pc = "call"

CalculateOverallScores ==
    /\ pc = "call"
    /\ \E o \in calculateOverallScores(sections) :
          /\ overallAverage' = o.average
          /\ overallScore' = o.score
    /\ pc' = "done"
    /\ UNCHANGED <<resolverVars, fetchVars, convertVars, calls, permissionVars, formVars, assessmentRecords, fieldAverages, sections>>

OverallNext == CalculateOverallScores

SpecOverall == OverallInit /\ [][OverallNext]_vars

----------------------------------------------------------------------------
(* Unit lists: the first n names of UnitNames, each with any parent.       *)

UnitNames ==
    << "HR Department", "Recruiting Team", "Benefits Team",
       "Onboarding Team", "Payroll Team", "Audit Team" >>

\* a unit that is never listed in Org_Structure
OtherUnit == "Finance Department"

Titles(n) == {UnitNames[i] : i \in 1..n}

UnitList(n, parents) == [i \in 1..n |-> Unit(UnitNames[i], parents[i])]

----------------------------------------------------------------------------
(* SpecResolver: getRollupOrganizations(selectedOrg) on any unit list.     *)

MaxUnits == 5

ResolverInit ==
    /\ AggregateIdle
    /\ FetchIdle
    /\ ConvertIdle
    /\ OverlapIdle
    /\ PermissionIdle
    /\ FormIdle
    /\ \E n \in 0..MaxUnits :
          /\ \E parents \in [1..n -> {Null} \cup Titles(n)] :
                organizationStructure = UnitList(n, parents)
          /\ selectedOrg \in Titles(n) \cup {OtherUnit}
    /\ rollupOrgs = <<>>
    /\ stack = <<>>
    /\ descendants = <<>>
    /\ maxDepthArg = 0
    /\ pc = "call"

GetRollupOrganizations ==
    /\ pc = "call"
    /\ rollupOrgs' = getRollupOrganizations(selectedOrg, organizationStructure)
    /\ pc' = "done"
    /\ UNCHANGED <<organizationStructure, selectedOrg, stack, descendants,
                   maxDepthArg, aggregateVars, fetchVars, convertVars, calls, permissionVars, formVars>>

ResolverNext == GetRollupOrganizations

SpecResolver == ResolverInit /\ [][ResolverNext]_vars

----------------------------------------------------------------------------
(* SpecDescend: the 2-level resolver and getAllDescendants(selectedOrg,    *)
(* organizationStructure, maxDepth), the latter activation by activation.  *)

MaxDescendUnits == 3

MaxDepth == 3

\* frames the engine's call stack holds before it throws RangeError
StackLimit == 6

DescendInit ==
    /\ AggregateIdle
    /\ FetchIdle
    /\ ConvertIdle
    /\ OverlapIdle
    /\ PermissionIdle
    /\ FormIdle
    /\ \E n \in 0..MaxDescendUnits :
          /\ \E parents \in [1..n -> {Null, OtherUnit} \cup Titles(n)] :
                organizationStructure = UnitList(n, parents)
          /\ selectedOrg \in Titles(n) \cup {OtherUnit}
    /\ maxDepthArg \in 0..MaxDepth
    /\ rollupOrgs = <<>>
    /\ stack = <<>>
    /\ descendants = <<>>
    /\ pc = "call"

CallGetRollupOrganizations ==
    /\ pc = "call"
    /\ rollupOrgs' = getRollupOrganizations(selectedOrg, organizationStructure)
    /\ pc' = "done"
    /\ UNCHANGED <<organizationStructure, selectedOrg, stack, descendants,
                   maxDepthArg, aggregateVars, fetchVars, convertVars, calls, permissionVars, formVars>>

\* getAllDescendants(selectedOrg, organizationStructure, maxDepthArg)
CallGetAllDescendants ==
    /\ pc = "call"
    /\ stack' = <<Activation(selectedOrg, organizationStructure, maxDepthArg, 0)>>
    /\ pc' = "descending"
    /\ UNCHANGED <<organizationStructure, selectedOrg, rollupOrgs, descendants,
                   maxDepthArg, aggregateVars, fetchVars, convertVars, calls, permissionVars, formVars>>

Top == stack[Len(stack)]

\* directChildren.forEach: the recursive call for the next child
Descend ==
    /\ pc = "descending"
    /\ Top.todo # <<>>
    /\ IF Len(stack) < StackLimit
       THEN /\ stack' = [stack EXCEPT ![Len(stack)].todo = Tail(@)]
                        \o <<Activation(Head(Top.todo), organizationStructure,
                                        maxDepthArg, Top.currentDepth + 1)>>
            /\ pc' = pc
       ELSE /\ stack' = stack
            /\ pc' = "overflow"
    /\ UNCHANGED <<organizationStructure, selectedOrg, rollupOrgs, descendants,
                   maxDepthArg, aggregateVars, fetchVars, convertVars, calls, permissionVars, formVars>>

\* return descendants; the caller pushes them: descendants.push(...childDescendants)
Return ==
    /\ pc = "descending"
    /\ Top.todo = <<>>
    /\ IF Len(stack) = 1
       THEN /\ descendants' = Top.descendants
            /\ stack' = <<>>
            /\ pc' = "done"
       ELSE /\ stack' = [SubSeq(stack, 1, Len(stack) - 1) EXCEPT
                            ![Len(stack) - 1].descendants = @ \o Top.descendants]
            /\ descendants' = descendants
            /\ pc' = pc
    /\ UNCHANGED <<organizationStructure, selectedOrg, rollupOrgs,
                   maxDepthArg, aggregateVars, fetchVars, convertVars, calls, permissionVars, formVars>>

DescendNext ==
    \/ CallGetRollupOrganizations
    \/ CallGetAllDescendants
    \/ Descend
    \/ Return

\* the calls are synchronous: once started they run until they return
SpecDescend == DescendInit /\ [][DescendNext]_vars /\ WF_vars(DescendNext)

----------------------------------------------------------------------------
(* SpecFetch: one loadRollupAssessmentData(selectedOrg) from the call to   *)
(* the component state it leaves, the bulk query to the record store       *)
(* included.                                                               *)

MaxFetchUnits == 2

MaxStoreRecords == 1

FetchUnits == <<"HR Department", "O'Reilly Division", "Men's & Women's Wear">>

FetchTitles == {FetchUnits[i] : i \in 1..Len(FetchUnits)}

\* records the KMAssessment list holds for the units asked for
StoreRecords ==
    { [Organization |-> "HR Department", SG_VS_KMVisionAligned |-> "Optimal",
       SG_VS_StrategyComm |-> "Bogus", CP_KSC_SharingCulture |-> Null],
      [Organization |-> "O'Reilly Division", SG_VS_KMVisionAligned |-> Null,
       SG_VS_StrategyComm |-> Null, CP_KSC_SharingCulture |-> Null] }

\* sections as a previous rollup with data left them
StaleSections ==
    [i \in 1..Len(getInitialSections) |->
        [getInitialSections[i] EXCEPT
            !.questions = [j \in 1..Len(getInitialSections[i].questions) |->
                IF IsHeaderId(getInitialSections[i].questions[j].id)
                THEN getInitialSections[i].questions[j]
                ELSE [getInitialSections[i].questions[j] EXCEPT
                        !.level = "Optimal", !.score = 500]],
            !.averageScore = 500]]

FetchInit ==
    /\ ConvertIdle
    /\ OverlapIdle
    /\ PermissionIdle
    /\ FormIdle
    /\ \E n \in 0..MaxFetchUnits :
          \E parents \in [1..n -> {Null} \cup FetchTitles] :
             organizationStructure = [i \in 1..n |-> Unit(FetchUnits[i], parents[i])]
    /\ selectedOrg \in FetchTitles \cup Placeholders
    /\ rollupOrgs = <<>>
    /\ stack = <<>>
    /\ descendants = <<>>
    /\ maxDepthArg = 0
    /\ assessmentRecords = <<>>
    /\ fieldAverages = EmptyMap
    /\ \/ sections = getInitialSections /\ overallAverage = 0 /\ overallScore = 0
       \/ sections = StaleSections /\ overallAverage = 500 /\ overallScore = 5
    /\ spHttpClient \in BOOLEAN
    /\ siteUrl \in {"", "https://contoso.sharepoint.com/sites/km"}
    /\ response \in {"ok", "notOk", "throws"}
    /\ \E n \in 0..MaxStoreRecords : storeItems \in [1..n -> StoreRecords]
    /\ requests = <<>>
    /\ isLoadingAssessmentData = FALSE
    /\ fetchOutcome = "none"
    /\ pc = "call"

\* loadRollupAssessmentData(selectedOrg) up to the await inside
\* fetchRollupAssessmentData
CallLoadRollupAssessmentData ==
    /\ pc = "call"
    /\ IF selectedOrg \in Placeholders
       THEN /\ pc' = "done"
            /\ UNCHANGED <<rollupOrgs, assessmentRecords, requests,
                           isLoadingAssessmentData, fetchOutcome>>
       ELSE LET orgs == getRollupOrganizations(selectedOrg, organizationStructure)
            IN  /\ rollupOrgs' = orgs
                /\ IF CannotFetch(orgs)
                   THEN /\ assessmentRecords' = <<>>
                        /\ fetchOutcome' = "returned"
                        /\ pc' = "fetched"
                        /\ UNCHANGED <<requests, isLoadingAssessmentData>>
                   ELSE /\ isLoadingAssessmentData' = TRUE
                        /\ requests' = requests \o QueriesSent(orgs)
                        /\ fetchOutcome' = "pending"
                        /\ pc' = "awaiting"
                        /\ UNCHANGED assessmentRecords
    /\ UNCHANGED <<organizationStructure, selectedOrg, stack, descendants, maxDepthArg,
                   fieldAverages, sections, overallAverage, overallScore,
                   spHttpClient, siteUrl, response, storeItems, convertVars, calls, permissionVars, formVars>>

\* the record store answers: response.ok, a non-OK status (thrown at line
\* 507) or a rejected get; the catch returns [] for both failures and the
\* finally clears the loading flag
StoreAnswers ==
    /\ pc = "awaiting"
    /\ assessmentRecords' = IF response = "ok" THEN storeItems ELSE <<>>
    /\ fetchOutcome' = "returned"
    /\ isLoadingAssessmentData' = FALSE
    /\ pc' = "fetched"
    /\ UNCHANGED <<resolverVars, fieldAverages, sections, overallAverage, overallScore,
                   spHttpClient, siteUrl, response, storeItems, requests, convertVars, calls, permissionVars, formVars>>

FetchNext ==
    \/ CallLoadRollupAssessmentData
    \/ StoreAnswers
    \/ LoadRollupAssessmentData

SpecFetch == FetchInit /\ [][FetchNext]_vars

----------------------------------------------------------------------------
(* SpecStructure: fetchOrganizationStructure over whatever structure the   *)
(* component held, then a rollup resolved against the structure it left.   *)

MaxStructureUnits == 2

\* an Org_Structure item as $expand=ParentOrg returns it: the lookup is an
\* object with the parent's Title, <<>> when the unit has no parent
ListItem(title, parentLookup) == [Title |-> title, ParentOrg |-> parentLookup]

\* data.value of the Org_Structure list
OrgStructureLists ==
    { <<>>,
      << ListItem("HR Department", <<>>),
         ListItem("Recruiting Team", <<"HR Department">>),
         ListItem("Benefits Team", <<"HR Department">>) >> }

\* data.value.map(item => ({ Title, ParentOrg: item.ParentOrg ? item.ParentOrg.Title : null }))
MapOrgStructure(items) ==
    [i \in 1..Len(items) |->
        Unit(items[i].Title,
             IF items[i].ParentOrg # <<>> THEN items[i].ParentOrg[1] ELSE Null)]

\* faulty variant: the structure fetched earlier kept when the fetch fails
StructureKeptOnFailure(previous) == previous

\* setOrganizationStructure([]) of the else branch and of the catch
StructureOnFailure(previous) == <<>>

StructureInit ==
    /\ AggregateIdle
    /\ ConvertIdle
    /\ OverlapIdle
    /\ PermissionIdle
    /\ FormIdle
    /\ \E n \in 0..MaxStructureUnits :
          /\ \E parents \in [1..n -> {Null} \cup Titles(n)] :
                organizationStructure = UnitList(n, parents)
    /\ selectedOrg \in Titles(2) \cup {OtherUnit}
    /\ rollupOrgs = <<>>
    /\ stack = <<>>
    /\ descendants = <<>>
    /\ maxDepthArg = 0
    /\ spHttpClient \in BOOLEAN
    /\ siteUrl \in {"", "https://contoso.sharepoint.com/sites/km"}
    /\ response \in {"ok", "notOk", "throws", "badJson"}
    /\ storeItems \in OrgStructureLists
    /\ requests = <<>>
    /\ isLoadingAssessmentData = FALSE
    /\ fetchOutcome = "none"
    /\ pc = "call"

\* fetchOrganizationStructure up to its await
CallFetchOrganizationStructure ==
    /\ pc = "call"
    /\ IF ~spHttpClient \/ siteUrl = ""
       THEN /\ requests' = requests
            /\ fetchOutcome' = "returned"
            /\ pc' = "structureFetched"
       ELSE /\ requests' = Append(requests, <<"Org_Structure", "$expand=ParentOrg">>)
            /\ fetchOutcome' = "pending"
            /\ pc' = "awaitingStructure"
    /\ UNCHANGED <<resolverVars, aggregateVars, convertVars, calls, permissionVars, formVars, spHttpClient, siteUrl,
                   response, storeItems, isLoadingAssessmentData>>

\* the answer: response.ok with a list, a non-OK status, a rejected get, or
\* a body response.json() rejects; both failure paths set [] and return
OrgStructureAnswers ==
    /\ pc = "awaitingStructure"
    /\ organizationStructure' =
          IF response = "ok" THEN MapOrgStructure(storeItems)
          ELSE StructureOnFailure(organizationStructure)
    /\ fetchOutcome' = "returned"
    /\ pc' = "structureFetched"
    /\ UNCHANGED <<selectedOrg, rollupOrgs, stack, descendants, maxDepthArg,
                   aggregateVars, convertVars, calls, permissionVars, formVars, spHttpClient, siteUrl, response,
                   storeItems, requests, isLoadingAssessmentData>>

\* a later getRollupOrganizations(selectedOrg)
GetRollupOrganizationsLater ==
    /\ pc = "structureFetched"
    /\ rollupOrgs' = getRollupOrganizations(selectedOrg, organizationStructure)
    /\ pc' = "done"
    /\ UNCHANGED <<organizationStructure, selectedOrg, stack, descendants,
                   maxDepthArg, aggregateVars, fetchVars, convertVars, calls, permissionVars, formVars>>

StructureNext ==
    \/ CallFetchOrganizationStructure
    \/ OrgStructureAnswers
    \/ GetRollupOrganizationsLater

SpecStructure == StructureInit /\ [][StructureNext]_vars

----------------------------------------------------------------------------
(* SpecPermission: one call of a PermissionChecker method, from the call   *)
(* to the value its promise settles with.                                  *)

MaxMatches == 2

\* { isGroupMember: false, error: ... }
Denied == [settled |-> "resolved", isGroupMember |-> FALSE, error |-> TRUE]

\* { isGroupMember: true }
Granted == [settled |-> "resolved", isGroupMember |-> TRUE, error |-> FALSE]

\* the method is suspended at await context.spHttpClient.get(...)
Pending == [settled |-> "pending", isGroupMember |-> FALSE, error |-> FALSE]

\* checkGroupMembership up to its await: reading displayName of a missing
\* user object throws into the catch; an empty or undefined name returns
CheckBeforeAwait(ctx) ==
    IF ~ctx.user THEN Denied
    ELSE IF ~Truthy(ctx.displayName) THEN Denied
    ELSE Pending

\* faulty variant: the body read without testing response.ok
CheckAfterAwaitUntested(answer, users) ==
    IF answer \in {"ok", "notOk"}
    THEN [settled |-> "resolved", isGroupMember |-> Len(users) > 0, error |-> FALSE]
    ELSE Denied

\* checkGroupMembership after its await: !response.ok returns the denial;
\* a rejected get and a body without value end in the catch
CheckAfterAwait(answer, users) ==
    IF answer = "ok"
    THEN [settled |-> "resolved", isGroupMember |-> Len(users) > 0, error |-> FALSE]
    ELSE Denied

\* isSiteAdmin up to the await inside checkGroupMembership(context, 'Site Owners')
SiteAdminBeforeAwait(ctx) ==
    IF ctx.permissions = "throws" THEN Denied
    ELSE IF ctx.permissions = "manageWeb" THEN Granted
    ELSE CheckBeforeAwait(ctx)

\* hasAdminPermissions after await this.isSiteAdmin(context)
AdminFromSiteAdmin(siteAdminResult) ==
    IF siteAdminResult.isGroupMember THEN Granted
    ELSE [settled |-> "resolved", isGroupMember |-> FALSE, error |-> FALSE]

\* what the called method makes of the result of the method it wraps
Settled(inner) ==
    IF method = "hasAdminPermissions" THEN AdminFromSiteAdmin(inner) ELSE inner

PermissionInit ==
    /\ ResolverIdle
    /\ AggregateIdle
    /\ ConvertIdle
    /\ OverlapIdle
    /\ FormIdle
    /\ context \in [user : BOOLEAN,
                    displayName : {Null, "", "Alex Doe"},
                    permissions : {"manageWeb", "none", "undefined", "throws"}]
    /\ method \in {"checkGroupMembership", "isSiteAdmin", "hasAdminPermissions"}
    /\ result = [settled |-> "none", isGroupMember |-> FALSE, error |-> FALSE]
    /\ spHttpClient = TRUE
    /\ siteUrl = "https://contoso.sharepoint.com/sites/km"
    /\ response \in {"ok", "notOk", "throws", "badJson"}
    /\ \E n \in 0..MaxMatches : storeItems = [i \in 1..n |-> [Title |-> "Alex Doe"]]
    /\ requests = <<>>
    /\ isLoadingAssessmentData = FALSE
    /\ fetchOutcome = "none"
    /\ pc = "call"

\* the called method up to the await on the group query, or to its return
CallPermissionChecker ==
    /\ pc = "call"
    /\ LET first == IF method = "checkGroupMembership"
                     THEN CheckBeforeAwait(context)
                     ELSE SiteAdminBeforeAwait(context)
       IN  IF first = Pending
           THEN /\ requests' = Append(requests, <<"sitegroups/Users?$filter=Title eq ", "'">>
                                                   \o <<context.displayName>> \o <<"'">>)
                /\ result' = Pending
                /\ pc' = "awaiting"
           ELSE /\ requests' = requests
                /\ result' = Settled(first)
                /\ pc' = "done"
    /\ UNCHANGED <<resolverVars, aggregateVars, convertVars, calls, formVars, context,
                   method, spHttpClient, siteUrl, response, storeItems,
                   isLoadingAssessmentData, fetchOutcome>>

\* the group query is answered and the awaiting methods run to their return
GroupQueryAnswers ==
    /\ pc = "awaiting"
    /\ result' = Settled(CheckAfterAwait(response, storeItems))
    /\ pc' = "done"
    /\ UNCHANGED <<resolverVars, aggregateVars, convertVars, calls, formVars, context,
                   method, fetchVars>>

PermissionNext ==
    \/ CallPermissionChecker
    \/ GroupQueryAnswers

SpecPermission == PermissionInit /\ [][PermissionNext]_vars

----------------------------------------------------------------------------
(* SpecForm: the dirty-state form pattern, an open edit modal under any    *)
(* sequence of edits, item changes, dismiss attempts and dialog answers.   *)

\* items the parent can hand to EditForm
Items == {1, 2}

FormTitles == {"", "Budget", "Budget 2026"}

\* a File object picked for upload, or none
Files == {Null, "photo-1.png", "photo-2.png"}

FormStates == [title : FormTitles, pendingImageFile : Files]

\* initFormState(item)
initFormState(it) ==
    [title |-> IF it = 1 THEN "Budget" ELSE "", pendingImageFile |-> Null]

\* JSON.stringify(formState): a File object serializes as {}, null as null
Serialize(state) ==
    <<"{title:", state.title, ",pendingImageFile:",
      IF state.pendingImageFile = Null THEN "null" ELSE "{}", "}">>

\* current !== initialStateRef.current
isDirty == Serialize(formState) # initialStateRef

\* _closeEditModal: the parent state <<isEditModalOpen, editModalDismissAttempt>>
closeEditModal(open, attempt) == <<FALSE, FALSE>>

\* faulty variant: ModalShell onDismiss wired to _closeEditModal
DismissClosesModal(open, attempt) == closeEditModal(open, attempt)

\* _handleEditModalDismiss
handleEditModalDismiss(open, attempt) == <<open, TRUE>>

\* _handleEditModalDismissAttemptHandled
handleEditModalDismissAttemptHandled(open, attempt) == <<open, FALSE>>

FormInit ==
    /\ ResolverIdle
    /\ AggregateIdle
    /\ FetchIdle
    /\ ConvertIdle
    /\ OverlapIdle
    /\ PermissionIdle
    /\ item \in Items
    /\ formState = initFormState(item)
    /\ initialStateRef = Serialize(initFormState(item))
    /\ showDiscardConfirm = FALSE
    /\ isEditModalOpen = TRUE
    /\ editModalDismissAttempt = FALSE
    /\ lastEvent = "open"
    /\ pc = "form"

FormFrame ==
    UNCHANGED <<resolverVars, aggregateVars, fetchVars, convertVars, calls,
                permissionVars, pc>>

\* the user changes a field: setFormState
EditField ==
    /\ isEditModalOpen
    /\ ~showDiscardConfirm
    /\ \E next \in FormStates \ {formState} : formState' = next
    /\ lastEvent' = "edit"
    /\ UNCHANGED <<item, initialStateRef, showDiscardConfirm, isEditModalOpen,
                   editModalDismissAttempt>>
    /\ FormFrame

\* the parent hands over another item: the [item] effect
ItemChanges ==
    /\ isEditModalOpen
    /\ \E next \in Items \ {item} :
          /\ item' = next
          /\ initialStateRef' = Serialize(initFormState(next))
    /\ showDiscardConfirm' = FALSE
    /\ lastEvent' = "itemChange"
    /\ UNCHANGED <<formState, isEditModalOpen, editModalDismissAttempt>>
    /\ FormFrame

\* X button or click outside: ModalShell onDismiss
ModalDismiss ==
    /\ isEditModalOpen
    /\ LET parent == handleEditModalDismiss(isEditModalOpen, editModalDismissAttempt)
       IN  /\ isEditModalOpen' = parent[1]
           /\ editModalDismissAttempt' = parent[2]
    /\ lastEvent' = "dismiss"
    /\ UNCHANGED <<item, formState, initialStateRef, showDiscardConfirm>>
    /\ FormFrame

\* the [dismissAttempt, ...] effect of EditForm
DismissAttemptEffect ==
    /\ isEditModalOpen
    /\ editModalDismissAttempt
    /\ LET afterCancel == IF isDirty THEN <<isEditModalOpen, editModalDismissAttempt>>
                          ELSE closeEditModal(isEditModalOpen, editModalDismissAttempt)
           parent == handleEditModalDismissAttemptHandled(afterCancel[1], afterCancel[2])
       IN  /\ showDiscardConfirm' = IF isDirty THEN TRUE ELSE showDiscardConfirm
           /\ isEditModalOpen' = parent[1]
           /\ editModalDismissAttempt' = parent[2]
    /\ lastEvent' = "dismissEffect"
    /\ UNCHANGED <<item, formState, initialStateRef>>
    /\ FormFrame

\* Cancel button
HandleCancelClick ==
    /\ isEditModalOpen
    /\ IF isDirty
       THEN /\ showDiscardConfirm' = TRUE
            /\ UNCHANGED <<isEditModalOpen, editModalDismissAttempt>>
       ELSE LET parent == closeEditModal(isEditModalOpen, editModalDismissAttempt)
            IN  /\ isEditModalOpen' = parent[1]
                /\ editModalDismissAttempt' = parent[2]
                /\ UNCHANGED showDiscardConfirm
    /\ lastEvent' = "cancelClick"
    /\ UNCHANGED <<item, formState, initialStateRef>>
    /\ FormFrame

\* Discard in the confirmation dialog
HandleDiscardConfirm ==
    /\ isEditModalOpen
    /\ showDiscardConfirm
    /\ showDiscardConfirm' = FALSE
    /\ LET parent == closeEditModal(isEditModalOpen, editModalDismissAttempt)
       IN  /\ isEditModalOpen' = parent[1]
           /\ editModalDismissAttempt' = parent[2]
    /\ lastEvent' = "discard"
    /\ UNCHANGED <<item, formState, initialStateRef>>
    /\ FormFrame

\* Keep Editing, or the dialog's own onDismiss
HandleDiscardCancel ==
    /\ isEditModalOpen
    /\ showDiscardConfirm
    /\ showDiscardConfirm' = FALSE
    /\ lastEvent' = "keepEditing"
    /\ UNCHANGED <<item, formState, initialStateRef, isEditModalOpen,
                   editModalDismissAttempt>>
    /\ FormFrame

FormNext ==
    \/ EditField
    \/ ItemChanges
    \/ ModalDismiss
    \/ DismissAttemptEffect
    \/ HandleCancelClick
    \/ HandleDiscardConfirm
    \/ HandleDiscardCancel

SpecForm == FormInit /\ [][FormNext]_vars

----------------------------------------------------------------------------
(* SpecExclude: the getRollupOrganizations of Variation 3, on unit lists   *)
(* whose units carry the ExcludeFromRollup flag.                           *)

MaxExcludeUnits == 3

\* ExcludeFromRollup?: boolean; FALSE stands for false and for a unit
\* without the field, which `!org?.ExcludeFromRollup` treats alike
ExcludableUnit(title, parent, exclude) ==
    [Title |-> title, ParentOrg |-> parent, ExcludeFromRollup |-> exclude]

\* organizationStructure.find(o => o.Title === childOrg): the index of the
\* first match, 0 for undefined
Find(title, orgStructure) ==
    IF \E i \in 1..Len(orgStructure) : orgStructure[i].Title = title
    THEN CHOOSE i \in 1..Len(orgStructure) :
            /\ orgStructure[i].Title = title
            /\ \A j \in 1..(i - 1) : orgStructure[j].Title # title
    ELSE 0

\* faulty variant: the flag not looked at
IncludedAlways(childOrg, orgStructure) == TRUE

\* return !org?.ExcludeFromRollup
Included(childOrg, orgStructure) ==
    LET org == Find(childOrg, orgStructure)
    IN  org = 0 \/ ~orgStructure[org].ExcludeFromRollup

getRollupOrganizationsExcluding(org, orgStructure) ==
    IF Len(orgStructure) > 0
    THEN LET childOrgs == getChildOrganizations(org, orgStructure)
             includedChildOrgs ==
                 SelectSeq(childOrgs, LAMBDA childOrg : Included(childOrg, orgStructure))
         IN  <<org>> \o includedChildOrgs
    ELSE <<org>>

ExcludeInit ==
    /\ AggregateIdle
    /\ FetchIdle
    /\ ConvertIdle
    /\ OverlapIdle
    /\ PermissionIdle
    /\ FormIdle
    /\ \E n \in 0..MaxExcludeUnits :
          /\ \E parents \in [1..n -> {Null} \cup Titles(n)] :
             \E excluded \in [1..n -> BOOLEAN] :
                organizationStructure =
                    [i \in 1..n |-> ExcludableUnit(UnitNames[i], parents[i], excluded[i])]
          /\ selectedOrg \in Titles(n) \cup {OtherUnit}
    /\ rollupOrgs = <<>>
    /\ stack = <<>>
    /\ descendants = <<>>
    /\ maxDepthArg = 0
    /\ pc = "call"

GetRollupOrganizationsExcluding ==
    /\ pc = "call"
    /\ rollupOrgs' = getRollupOrganizationsExcluding(selectedOrg, organizationStructure)
    /\ pc' = "done"
    /\ UNCHANGED <<organizationStructure, selectedOrg, stack, descendants,
                   maxDepthArg, aggregateVars, fetchVars, convertVars, calls, permissionVars, formVars>>

ExcludeNext == GetRollupOrganizationsExcluding

SpecExclude == ExcludeInit /\ [][ExcludeNext]_vars

----------------------------------------------------------------------------
(* SpecOverlap: several loadRollupAssessmentData calls on one component,   *)
(* a later one started while earlier ones wait for the record store.       *)

MaxCalls == 2

OverlapOrgs == {"HR Department", "Recruiting Team", "Finance Department"}

\* the KMAssessment list: one record per unit
OverlapStore ==
    << [Organization |-> "HR Department", SG_VS_KMVisionAligned |-> "Optimal",
        SG_VS_StrategyComm |-> "Optimal", CP_KSC_SharingCulture |-> "Optimal"],
       [Organization |-> "Recruiting Team", SG_VS_KMVisionAligned |-> "Developing",
        SG_VS_StrategyComm |-> Null, CP_KSC_SharingCulture |-> "Developing"],
       [Organization |-> "Finance Department", SG_VS_KMVisionAligned |-> "Beginning",
        SG_VS_StrategyComm |-> "Beginning", CP_KSC_SharingCulture |-> Null] >>

\* the items the store returns for $filter over the given units
RECURSIVE ItemsMatching(_, _)
ItemsMatching(orgs, items) ==
    IF items = <<>> THEN <<>>
    ELSE (IF \E i \in 1..Len(orgs) : orgs[i] = Head(items).Organization
          THEN <<Head(items)>> ELSE <<>>)
            \o ItemsMatching(orgs, Tail(items))

\* what loadRollupAssessmentData sets from the records it was given: the
\* possible fieldAverages, setSections, setOverallAverage, setOverallScore
LoadResults(records) ==
    IF Len(records) = 0
    THEN {[fieldAverages |-> EmptyMap, sections |-> DefaultSections,
           overallAverage |-> o.average, overallScore |-> o.score] :
              o \in calculateOverallScores(DefaultSections)}
    ELSE UNION { UNION { {[fieldAverages |-> fa, sections |-> us,
                           overallAverage |-> o.average, overallScore |-> o.score] :
                              o \in calculateOverallScores(us)} :
                    us \in updateSectionsWithRollupAverages(getInitialSections, fa)} :
                 fa \in calculateFieldAverages(records)}

OverlapInit ==
    /\ ConvertIdle
    /\ PermissionIdle
    /\ FormIdle
    /\ organizationStructure \in
          { <<>>, <<Unit("HR Department", Null), Unit("Recruiting Team", "HR Department")>> }
    /\ selectedOrg = ""
    /\ rollupOrgs = <<>>
    /\ stack = <<>>
    /\ descendants = <<>>
    /\ maxDepthArg = 0
    /\ AggregateIdle
    /\ spHttpClient \in BOOLEAN
    /\ siteUrl = "https://contoso.sharepoint.com/sites/km"
    /\ response = "ok"
    /\ storeItems = OverlapStore
    /\ requests = <<>>
    /\ isLoadingAssessmentData = FALSE
    /\ fetchOutcome = "none"
    /\ calls = <<>>
    /\ pc = "idle"

\* the continuation of loadRollupAssessmentData after its await, on the
\* records its own fetch returned
SetFromRecords(records) ==
    /\ assessmentRecords' = records
    /\ \E r \in LoadResults(records) :
          /\ fieldAverages' = r.fieldAverages
          /\ sections' = r.sections
          /\ overallAverage' = r.overallAverage
          /\ overallScore' = r.overallScore

\* the user selects an organization: loadRollupAssessmentData(org) runs to
\* the await on the record store (to its end when nothing can be fetched)
StartRollup ==
    /\ Len(calls) < MaxCalls
    /\ \E org \in OverlapOrgs :
          LET orgs == getRollupOrganizations(org, organizationStructure)
              inFlight == {i \in 1..Len(calls) : calls[i].pc = "awaiting"}
          IN  /\ selectedOrg' = org
              /\ rollupOrgs' = orgs
              /\ IF CannotFetch(orgs)
                 THEN /\ calls' = Append(calls, [organization |-> org, rollupOrgs |-> orgs,
                                                  pc |-> "done", answer |-> "none",
                                                  overlaps |-> inFlight])
                      /\ SetFromRecords(<<>>)
                      /\ UNCHANGED <<requests, isLoadingAssessmentData>>
                 ELSE /\ calls' = Append(calls, [organization |-> org, rollupOrgs |-> orgs,
                                                  pc |-> "awaiting", answer |-> "none",
                                                  overlaps |-> inFlight])
                      /\ isLoadingAssessmentData' = TRUE
                      /\ requests' = requests \o QueriesSent(orgs)
                      /\ UNCHANGED aggregateVars
    /\ UNCHANGED <<organizationStructure, stack, descendants, maxDepthArg, spHttpClient,
                   siteUrl, response, storeItems, fetchOutcome, convertVars,
                   permissionVars, formVars, pc>>

\* the store answers one waiting call, OK or not: its fetch returns (the
\* finally clears the flag) and its loadRollupAssessmentData runs to the end
FetchCompletes ==
    /\ \E i \in 1..Len(calls) :
          /\ calls[i].pc = "awaiting"
          /\ \E answer \in {"ok", "notOk", "throws"} :
                /\ SetFromRecords(IF answer = "ok"
                                  THEN ItemsMatching(calls[i].rollupOrgs, storeItems)
                                  ELSE <<>>)
                /\ calls' = [calls EXCEPT ![i].pc = "done", ![i].answer = answer]
    /\ isLoadingAssessmentData' = FALSE
    /\ UNCHANGED <<resolverVars, spHttpClient, siteUrl, response, storeItems, requests,
                   fetchOutcome, convertVars, permissionVars, formVars, pc>>

OverlapNext ==
    \/ StartRollup
    \/ FetchCompletes

SpecOverlap == OverlapInit /\ [][OverlapNext]_vars

----------------------------------------------------------------------------
(* SpecConvert: the two conversions on any label and any score, alone and  *)
(* one applied to the result of the other.                                 *)

\* largest score argument, in hundredths
MaxScore == 600

\* values a choice column can carry
Labels == KnownLevels \cup PrototypeKeys \cup {"", "Bogus", "optimal", "N/A"}

ConvertInit ==
    /\ ResolverIdle
    /\ AggregateIdle
    /\ FetchIdle
    /\ OverlapIdle
    /\ PermissionIdle
    /\ FormIdle
    /\ levelArg \in Labels
    /\ scoreArg \in 0..MaxScore
    /\ scoreResult = 0
    /\ levelResult = ""
    /\ pc = "call"

\* getScoreFromAssessmentLevel(levelArg)
GetScoreFromAssessmentLevel ==
    /\ pc = "call"
    /\ scoreResult' = getScoreFromAssessmentLevel(levelArg)
    /\ pc' = "scored"
    /\ UNCHANGED <<resolverVars, aggregateVars, fetchVars, calls, permissionVars, formVars, levelArg, scoreArg, levelResult>>

\* getAssessmentLevelFromScore(scoreArg)
GetAssessmentLevelFromScore ==
    /\ pc = "call"
    /\ levelResult' = getAssessmentLevelFromScore(scoreArg)
    /\ pc' = "levelled"
    /\ UNCHANGED <<resolverVars, aggregateVars, fetchVars, calls, permissionVars, formVars, levelArg, scoreArg, scoreResult>>

\* getAssessmentLevelFromScore(getScoreFromAssessmentLevel(levelArg))
LevelOfScoreResult ==
    /\ pc = "scored"
    /\ levelResult' = getAssessmentLevelFromScore(
                          IF scoreResult = NotANumber THEN NotANumber
                          ELSE 100 * scoreResult)
    /\ pc' = "levelOfScore"
    /\ UNCHANGED <<resolverVars, aggregateVars, fetchVars, calls, permissionVars, formVars, levelArg, scoreArg, scoreResult>>

\* getScoreFromAssessmentLevel(getAssessmentLevelFromScore(scoreArg))
ScoreOfLevelResult ==
    /\ pc = "levelled"
    /\ scoreResult' = getScoreFromAssessmentLevel(levelResult)
    /\ pc' = "scoreOfLevel"
    /\ UNCHANGED <<resolverVars, aggregateVars, fetchVars, calls, permissionVars, formVars, levelArg, scoreArg, levelResult>>

ConvertNext ==
    \/ GetScoreFromAssessmentLevel
    \/ GetAssessmentLevelFromScore
    \/ LevelOfScoreResult
    \/ ScoreOfLevelResult

SpecConvert == ConvertInit /\ [][ConvertNext]_vars

----------------------------------------------------------------------------
(* Properties *)

Abs(x) == IF x < 0 THEN -x ELSE x

\* v (hundredths) is total / count rounded to the nearest hundredth
IsRound2(v, total, count) == 2 * Abs(count * v - total) <= count

\* the level -> score table of the data model
LevelScore(level) ==
    CASE level = "Insufficient" -> 1
      [] level = "Beginning"    -> 2
      [] level = "Developing"   -> 3
      [] level = "Innovative"   -> 4
      [] level = "Optimal"      -> 5
      [] OTHER                  -> 1

RECURSIVE SumOver(_, _)
SumOver(S, f) ==
    IF S = {} THEN 0
    ELSE LET x == CHOOSE y \in S : TRUE IN f[x] + SumOver(S \ {x}, f)

\* the records that carry a value in a column
Samples(column) ==
    {i \in 1..Len(assessmentRecords) :
        assessmentRecords[i][column] # Null /\ assessmentRecords[i][column] # ""}

SampleScores(column) ==
    [i \in Samples(column) |-> 100 * LevelScore(assessmentRecords[i][column])]

WithData(section) ==
    {j \in 1..Len(section.questions) :
        /\ ~IsHeaderId(section.questions[j].id)
        /\ section.questions[j].id \in DOMAIN fieldAverages}

DataOf(section) ==
    [j \in WithData(section) |-> fieldAverages[section.questions[j].id]]

\* C2: updateSectionsWithRollupAverages sets each section's average to the
\* mean, rounded to 2 decimals, of the field averages of its non-header
\* questions that have an entry, and to 0 when none has; a header
\* pseudo-question never contributes, whatever its score.
C2_SectionAverageIsRoundedMean ==
    pc = "done" =>
        \A s \in 1..Len(sections) :
            LET n == Cardinality(WithData(sections[s]))
            IN  IF n = 0
                THEN sections[s].averageScore = 0
                ELSE IsRound2(sections[s].averageScore,
                              SumOver(WithData(sections[s]), DataOf(sections[s])), n)

\* section sg: header scored 5.00, questions 1.00 and 1.50, average 1.25;
\* section cp: only its header has a score, average 0
C2_Witness ==
    /\ pc = "done"
    /\ fieldAverages = [q \in {"sg-vs-header", "sg-vs-1", "sg-vs-2", "cp-ksc-header"} |->
                          CASE q = "sg-vs-1" -> 100
                            [] q = "sg-vs-2" -> 150
                            [] OTHER -> 500]
    /\ sections[1].questions[1].score = 500
    /\ sections[1].averageScore = 125
    /\ sections[2].questions[1].score = 500
    /\ sections[2].averageScore = 0

\* the section averages strictly greater than 0
Positive == {i \in 1..Len(sections) : sections[i].averageScore > 0}

AverageOf == [i \in 1..Len(sections) |-> sections[i].averageScore]

\* C3: calculateOverallScores sets the overall average to the mean, rounded
\* to 2 decimals, of the section averages strictly greater than 0; with no
\* such section both the overall average and the floored score are 0.
C3_OverallAverageIsRoundedMean ==
    pc = "done" =>
        IF Positive = {}
        THEN overallAverage = 0 /\ overallScore = 0
        ELSE IsRound2(overallAverage, SumOver(Positive, AverageOf), Cardinality(Positive))

\* averages 0, 1.00 and 2.50: the 0 is left out, (1.00 + 2.50) / 2 = 1.75
C3_Witness ==
    /\ pc = "done"
    /\ AverageOf = <<0, 100, 250>>
    /\ overallAverage = 175
    /\ overallScore = 1

\* C4 as stated: the floored score is floor of the reported (rounded)
\* overall average.
C4_FlooredIsFloorOfReported ==
    pc = "done" => overallScore = overallAverage \div 100

\* C4 amended: the floored score is floor of the unrounded mean as the code
\* computes it (at most the mean, and less than 1 below it, or exactly 1
\* below a whole-number mean); it is floor of the reported average whenever
\* that average is not a whole number, and that floor or one less when the
\* reported average is a whole number.
C4_FlooredIsFloorOfUnrounded ==
    pc = "done" =>
        /\ (overallAverage % 100 # 0 => overallScore = overallAverage \div 100)
        /\ (overallAverage % 100 = 0 =>
                overallScore \in {overallAverage \div 100, overallAverage \div 100 - 1})
        /\ (Positive # {} =>
                /\ 100 * overallScore * Cardinality(Positive) <= SumOver(Positive, AverageOf)
                /\ SumOver(Positive, AverageOf) <= 100 * (overallScore + 1) * Cardinality(Positive))

\* averages 1.33, 2.33, 2.33: mean 1.99666..., reported 2.00, floored 1
C4_Witness ==
    /\ pc = "done"
    /\ AverageOf = <<133, 233, 233>>
    /\ overallAverage = 200
    /\ overallScore = 1

\* C5: after a rollup the floored score never exceeds the reported overall
\* average.
C5_FlooredAtMostAverage ==
    pc = "done" => 100 * overallScore <= overallAverage

\* section averages 4.00 and 3.00: overall 3.50, floored 3
C5_Witness ==
    /\ pc = "done"
    /\ Len(assessmentRecords) = 2
    /\ sections[1].averageScore = 400
    /\ sections[2].averageScore = 300
    /\ overallAverage = 350
    /\ overallScore = 3

\* indices of the units whose parent is p
ChildIndices(p) ==
    {i \in 1..Len(organizationStructure) : organizationStructure[i].ParentOrg = p}

\* the titles at the indices S, in unit-list order
RECURSIVE TitlesInOrder(_)
TitlesInOrder(S) ==
    IF S = {} THEN <<>>
    ELSE LET i == CHOOSE x \in S : \A y \in S : x <= y
         IN  <<organizationStructure[i].Title>> \o TitlesInOrder(S \ {i})

ChildrenOf(p) == TitlesInOrder(ChildIndices(p))

RECURSIVE ChildrenOfEach(_)
ChildrenOfEach(ps) ==
    IF ps = <<>> THEN <<>> ELSE ChildrenOf(Head(ps)) \o ChildrenOfEach(Tail(ps))

\* C6: the default resolver returns the root, then the units whose parent is
\* the root in unit-list order, then for each of those children in that
\* order the units whose parent is that child.
C6_RootChildrenGrandchildren ==
    (pc = "done" /\ Len(organizationStructure) > 0) =>
        rollupOrgs = <<selectedOrg>> \o ChildrenOf(selectedOrg)
                        \o ChildrenOfEach(ChildrenOf(selectedOrg))

\* the documented example: HR with children Recruiting, Benefits and
\* grandchildren Onboarding, Payroll
C6_Witness ==
    /\ pc = "done"
    /\ organizationStructure =
          << Unit("HR Department", Null),
             Unit("Recruiting Team", "HR Department"),
             Unit("Benefits Team", "HR Department"),
             Unit("Onboarding Team", "Recruiting Team"),
             Unit("Payroll Team", "Benefits Team") >>
    /\ selectedOrg = "HR Department"
    /\ rollupOrgs = << "HR Department", "Recruiting Team", "Benefits Team",
                       "Onboarding Team", "Payroll Team" >>

\* u is k parent-hops below the selected root
RECURSIVE ChainTo(_, _)
ChainTo(u, k) ==
    IF k = 0 THEN u = selectedOrg
    ELSE \E i \in 1..Len(organizationStructure) :
            /\ organizationStructure[i].Title = u
            /\ organizationStructure[i].ParentOrg # Null
            /\ ChainTo(organizationStructure[i].ParentOrg, k - 1)

\* C7: every unit the 2-level resolver returns is the root or has a parent
\* chain to the root of 1 or 2 hops, and every unit the maxDepth-bounded
\* variant returns has a parent chain to the root of 1..maxDepth hops; no
\* other unit is returned.
C7_ReturnedWithinBound ==
    pc = "done" =>
        /\ \A i \in 1..Len(rollupOrgs) :
              \E k \in 0..2 : ChainTo(rollupOrgs[i], k)
        /\ \A i \in 1..Len(descendants) :
              \E k \in 1..maxDepthArg : ChainTo(descendants[i], k)

\* maxDepth 2 on a hierarchy of depth 2, with one unit outside it
C7_Witness ==
    /\ pc = "done"
    /\ organizationStructure =
          << Unit("HR Department", OtherUnit),
             Unit("Recruiting Team", "HR Department"),
             Unit("Benefits Team", Null) >>
    /\ selectedOrg = OtherUnit
    /\ maxDepthArg = 2
    /\ descendants = <<"HR Department", "Recruiting Team">>

\* C8: with an empty unit list, or with no unit whose parent is the root,
\* the resolver returns exactly [root].
C8_NoChildrenGivesRootOnly ==
    (pc = "done" /\ ChildIndices(selectedOrg) = {}) => rollupOrgs = <<selectedOrg>>

\* a listed root without children among units that have other parents or none
C8_Witness ==
    /\ pc = "done"
    /\ organizationStructure =
          << Unit("HR Department", Null),
             Unit("Recruiting Team", Null),
             Unit("Benefits Team", "Recruiting Team") >>
    /\ selectedOrg = "HR Department"
    /\ rollupOrgs = <<"HR Department">>

\* C9: the rollup list is never empty and has the root at position 0,
\* for empty, acyclic and cyclic unit lists alike.
C9_RootFirst ==
    pc = "done" => (Len(rollupOrgs) >= 1 /\ rollupOrgs[1] = selectedOrg)

\* two units that are each other's parent: the root comes back as its own
\* grandchild, after position 0
C9_Witness ==
    /\ pc = "done"
    /\ organizationStructure =
          << Unit("HR Department", "Recruiting Team"),
             Unit("Recruiting Team", "HR Department") >>
    /\ selectedOrg = "HR Department"
    /\ rollupOrgs = <<"HR Department", "Recruiting Team", "HR Department">>

\* C10: on every unit list, self- and mutually-referential ones included,
\* both resolvers return: the call reaches "done" and never overflows the
\* stack; at the bound the descent is cut off.
C10_ResolversTerminate == <>(pc = "done")

\* a unit that is its own parent, maxDepth 3: three levels, then cut off
C10_Witness ==
    /\ pc = "done"
    /\ organizationStructure = <<Unit("HR Department", "HR Department")>>
    /\ selectedOrg = "HR Department"
    /\ maxDepthArg = 3
    /\ descendants = <<"HR Department", "HR Department", "HR Department">>

----------------------------------------------------------------------------
(* Record selection *)

\* a rollup was requested for a real organization
Requested == selectedOrg \notin Placeholders

\* C11 as stated: every rollup request issues exactly one query to the
\* record store, never none and never one per unit.
C11_ExactlyOneQuery ==
    (pc = "done" /\ Requested) => Len(requests) = 1

\* C11 amended: a rollup request issues exactly one query, whatever the size
\* of the rollup set, when the SharePoint client and the site URL are set,
\* and no query at all when either is missing.
C11_OneQueryWhenConfigured ==
    Requested =>
        /\ (pc = "call") => Len(requests) = 0
        /\ (pc \in {"awaiting", "fetched", "done"}) =>
                Len(requests) = IF spHttpClient /\ siteUrl # "" THEN 1 ELSE 0

\* a rollup set of three units fetched with one query
C11_Witness ==
    /\ pc = "done"
    /\ Len(rollupOrgs) = 3
    /\ Len(requests) = 1
    /\ Len(assessmentRecords) = 1

\* C12: when the bulk query fails (a non-OK answer or a thrown error) the
\* fetch fails towards its caller; it does not settle with a record list.
C12_FailurePropagates ==
    (pc \in {"fetched", "done"} /\ Len(requests) > 0 /\ response # "ok")
        => fetchOutcome = "threw"

\* a unit name with each apostrophe doubled
RECURSIVE Escaped(_)
Escaped(pieces) ==
    IF pieces = <<>> THEN <<>>
    ELSE (IF Head(pieces) = "'" THEN <<"'", "'">> ELSE <<Head(pieces)>>)
            \o Escaped(Tail(pieces))

RECURSIVE EscapedFilter(_)
EscapedFilter(orgs) ==
    IF orgs = <<>> THEN <<>>
    ELSE <<"Organization eq ", "'">> \o Escaped(Pieces(Head(orgs))) \o <<"'">>
            \o (IF Len(orgs) = 1 THEN <<>> ELSE <<" or ">> \o EscapedFilter(Tail(orgs)))

\* C13: in every filter sent to the record store each apostrophe of a unit
\* name appears doubled.
C13_ApostrophesDoubled ==
    \A r \in 1..Len(requests) : requests[r] = EscapedFilter(rollupOrgs)

\* C14: a rollup whose bulk fetch returned no record completes with no
\* field average, every question score and section average 0, and the
\* overall average and floored score 0.
C14_NoRecordsGivesZeros ==
    (pc = "done" /\ Requested /\ Len(assessmentRecords) = 0) =>
        /\ fetchOutcome = "returned"
        /\ fieldAverages = EmptyMap
        /\ \A i \in 1..Len(sections) :
              /\ sections[i].averageScore = 0
              /\ \A j \in 1..Len(sections[i].questions) :
                    sections[i].questions[j].score = 0
        /\ overallAverage = 0
        /\ overallScore = 0

\* a three-unit rollup set, an OK answer without records, over the sections
\* a previous rollup had filled
C14_Witness ==
    /\ pc = "done"
    /\ Len(rollupOrgs) = 3
    /\ Len(requests) = 1
    /\ response = "ok"
    /\ storeItems = <<>>
    /\ sections = DefaultSections
    /\ overallAverage = 0

\* the averages a rollup of the given records can end with
AveragesFrom(records) ==
    IF Len(records) = 0
    THEN {[fields |-> EmptyMap,
           sections |-> [i \in 1..Len(DefaultSections) |-> DefaultSections[i].averageScore],
           overall |-> o.average] : o \in calculateOverallScores(DefaultSections)}
    ELSE UNION { UNION { {[fields |-> fa,
                           sections |-> [i \in 1..Len(us) |-> us[i].averageScore],
                           overall |-> o.average] : o \in calculateOverallScores(us)} :
                    us \in updateSectionsWithRollupAverages(getInitialSections, fa)} :
                 fa \in calculateFieldAverages(records)}

\* the record carries a value for the column
HasValueFor(column, record) == record[column] # Null /\ record[column] # ""

\* the records that carry a value for the column
RECURSIVE WithValueFor(_, _)
WithValueFor(column, records) ==
    IF records = <<>> THEN <<>>
    ELSE (IF HasValueFor(column, Head(records)) THEN <<Head(records)>> ELSE <<>>)
            \o WithValueFor(column, Tail(records))

\* the records that carry a value for at least one tracked column
RECURSIVE WithAnyValue(_)
WithAnyValue(records) ==
    IF records = <<>> THEN <<>>
    ELSE (IF \E column \in Columns : HasValueFor(column, Head(records))
          THEN <<Head(records)>> ELSE <<>>)
            \o WithAnyValue(Tail(records))

\* C15: units without a record and records without a value for a field are
\* not samples: the field, section and overall averages of a rollup are
\* those of the rollup without the records that carry no value at all, and
\* each field average is that of the records carrying a value for the field.
C15_AbsentIsNotZero ==
    pc = "done" =>
        /\ [fields |-> fieldAverages,
            sections |-> [i \in 1..Len(sections) |-> sections[i].averageScore],
            overall |-> overallAverage] \in AveragesFrom(WithAnyValue(assessmentRecords))
        /\ \A m \in 1..Len(getFieldMappings) :
              LET questionId == getFieldMappings[m][1]
                  carrying == WithValueFor(getFieldMappings[m][2], assessmentRecords)
              IN  \E fa \in FieldAveragesFrom(<<getFieldMappings[m]>>, carrying) :
                     /\ (questionId \in DOMAIN fieldAverages) <=> (questionId \in DOMAIN fa)
                     /\ questionId \in DOMAIN fa => fieldAverages[questionId] = fa[questionId]

\* one record with Optimal for a field, one record with no value at all:
\* the average is 5.00, not 2.50
C15_Witness ==
    /\ pc = "done"
    /\ Len(assessmentRecords) = 2
    /\ assessmentRecords[1].SG_VS_KMVisionAligned = "Optimal"
    /\ \A column \in Columns : assessmentRecords[2][column] = Null
    /\ assessmentRecords[1].SG_VS_StrategyComm = Null
    /\ assessmentRecords[1].CP_KSC_SharingCulture = "Optimal"
    /\ fieldAverages["sg-vs-1"] = 500
    /\ "sg-vs-2" \notin DOMAIN fieldAverages
    /\ sections[1].averageScore = 500
    /\ overallAverage = 500

----------------------------------------------------------------------------
(* Conversions *)

\* C16: the level-to-score conversion gives 1, 2, 3, 4, 5 for Insufficient,
\* Beginning, Developing, Innovative, Optimal and 1 for every other label.
C16_EveryOtherLabelScoresOne ==
    pc = "scored" => scoreResult = LevelScore(levelArg)

\* C17: the score-to-level conversion gives Optimal from 4.5, Innovative
\* from 3.5 to below 4.5, Developing from 2.5 to below 3.5, Beginning from
\* 1.5 to below 2.5 and Insufficient below 1.5.
C17_BoundaryTable ==
    pc = "levelled" =>
        /\ (scoreArg >= 450) <=> (levelResult = "Optimal")
        /\ (350 <= scoreArg /\ scoreArg < 450) <=> (levelResult = "Innovative")
        /\ (250 <= scoreArg /\ scoreArg < 350) <=> (levelResult = "Developing")
        /\ (150 <= scoreArg /\ scoreArg < 250) <=> (levelResult = "Beginning")
        /\ (scoreArg < 150) <=> (levelResult = "Insufficient")

\* 3.4 converted to Developing
C17_Witness ==
    pc = "levelled" /\ scoreArg = 340 /\ levelResult = "Developing"

\* C18: after updateSectionsWithRollupAverages every question that has a
\* field average carries the level getAssessmentLevelFromScore returns for
\* that average.
C18_InlineLevelsAgree ==
    pc = "done" =>
        \A i \in 1..Len(sections) : \A j \in 1..Len(sections[i].questions) :
            LET question == sections[i].questions[j]
            IN  question.id \in DOMAIN fieldAverages =>
                    question.level = getAssessmentLevelFromScore(fieldAverages[question.id])

\* averages on two boundaries, 3.5 and 1.5, shown as Innovative and Beginning
C18_Witness ==
    /\ pc = "done"
    /\ DOMAIN fieldAverages = {"sg-vs-1", "cp-ksc-1"}
    /\ fieldAverages["sg-vs-1"] = 350
    /\ fieldAverages["cp-ksc-1"] = 150
    /\ sections[1].questions[2].level = "Innovative"
    /\ sections[2].questions[2].level = "Beginning"

\* C19: converting a whole score 1..5 to its level and back gives the score,
\* and converting a known level to its score and back gives the level.
C19_RoundTrip ==
    /\ (pc = "scoreOfLevel" /\ scoreArg \in {100, 200, 300, 400, 500})
            => 100 * scoreResult = scoreArg
    /\ (pc = "levelOfScore" /\ levelArg \in KnownLevels)
            => levelResult = levelArg

\* 4 converted to Innovative and back to 4
C19_Witness ==
    /\ pc = "scoreOfLevel"
    /\ scoreArg = 400
    /\ levelResult = "Innovative"
    /\ scoreResult = 4

\* C20: the example conversions of the pattern hold: 3.8 gives Innovative,
\* 2.3 gives Developing, 4.7 gives Optimal and 1.2 gives Insufficient.
C20_ExampleConversions ==
    pc = "levelled" =>
        /\ scoreArg = 380 => levelResult = "Innovative"
        /\ scoreArg = 230 => levelResult = "Developing"
        /\ scoreArg = 470 => levelResult = "Optimal"
        /\ scoreArg = 120 => levelResult = "Insufficient"

----------------------------------------------------------------------------
(* Degradation, concurrency and the resolver variants *)

\* C21: when the fetch of the organization structure fails, the call
\* returns without an error, the stored structure is the empty list, and a
\* later rollup for a unit is that unit alone.
C21_FailedStructureFetchDegrades ==
    (pc \in {"structureFetched", "done"} /\ Len(requests) > 0 /\ response # "ok") =>
        /\ fetchOutcome = "returned"
        /\ organizationStructure = <<>>
        /\ pc = "done" => rollupOrgs = <<selectedOrg>>

\* a non-OK answer, then a rollup for HR Department in single-unit mode
C21_Witness ==
    /\ pc = "done"
    /\ response = "notOk"
    /\ Len(requests) = 1
    /\ organizationStructure = <<>>
    /\ selectedOrg = "HR Department"
    /\ rollupOrgs = <<"HR Department">>

\* the current user has no display name to query the group with
UserNameMissing == ~context.user \/ context.displayName \in {Null, ""}

\* the group query was sent and did not yield a readable OK answer
QueryFailed == Len(requests) > 0 /\ response # "ok"

\* isSiteAdmin found the manageWeb permission held
ManageWebHeld ==
    method \in {"isSiteAdmin", "hasAdminPermissions"} /\ context.permissions = "manageWeb"

\* C22 as stated: no method rejects; a missing user name, a non-OK answer
\* or a throwing step gives isGroupMember = false; isGroupMember is true
\* only with manageWeb held or a matching user returned.
C22_FailSafe ==
    pc = "done" =>
        /\ result.settled = "resolved"
        /\ (UserNameMissing \/ QueryFailed) => ~result.isGroupMember
        /\ result.isGroupMember =>
              ManageWebHeld \/ (Len(requests) > 0 /\ Len(storeItems) > 0)

\* C22 amended: as stated, except that isSiteAdmin and hasAdminPermissions
\* grant on the manageWeb permission before the user name is looked at.
C22_FailSafeUnlessManageWeb ==
    pc = "done" =>
        /\ result.settled = "resolved"
        /\ (~ManageWebHeld /\ (UserNameMissing \/ QueryFailed)) => ~result.isGroupMember
        /\ (method # "checkGroupMembership" /\ context.permissions = "throws")
              => ~result.isGroupMember
        /\ result.isGroupMember =>
              ManageWebHeld \/ (Len(requests) > 0 /\ response = "ok" /\ Len(storeItems) > 0)

\* no manageWeb, the Site Owners query returns the user: admin granted
C22_Witness ==
    /\ pc = "done"
    /\ method = "hasAdminPermissions"
    /\ context.permissions = "none"
    /\ context.displayName = "Alex Doe"
    /\ Len(requests) = 1
    /\ response = "ok"
    /\ Len(storeItems) = 1
    /\ result.isGroupMember

\* C23: the modal is closed only by a Cancel click or a handled dismiss
\* attempt made while the form is not dirty, or by Discard in the shown
\* confirmation dialog; Keep Editing leaves the modal open and the form
\* state as it was.
C23_ClosedOnlyCleanOrDiscarded ==
    [][ /\ (isEditModalOpen /\ ~isEditModalOpen') =>
              \/ lastEvent' \in {"cancelClick", "dismissEffect"} /\ ~isDirty
              \/ lastEvent' = "discard" /\ showDiscardConfirm
        /\ (lastEvent' = "keepEditing") =>
              /\ isEditModalOpen'
              /\ formState' = formState
              /\ initialStateRef' = initialStateRef ]_vars

\* an edited form closed by Discard
C23_Witness ==
    /\ ~isEditModalOpen
    /\ lastEvent = "discard"
    /\ formState.title # initFormState(item).title

\* what the component shows
Shown ==
    [fieldAverages |-> fieldAverages, sections |-> sections,
     overallAverage |-> overallAverage, overallScore |-> overallScore]

\* C24: two overlapping rollup requests for different organizations, both
\* completed with their records: the stored sections and overall score are
\* those of the organization requested last.
C24_LastRequestedWins ==
    (/\ Len(calls) = 2
     /\ calls[1].pc = "done" /\ calls[2].pc = "done"
     /\ calls[1].answer = "ok" /\ calls[2].answer = "ok"
     /\ calls[2].overlaps = {1}
     /\ calls[1].organization # calls[2].organization)
        => Shown \in LoadResults(ItemsMatching(calls[2].rollupOrgs, storeItems))

\* C25: isLoadingAssessmentData is true exactly while a bulk fetch is in
\* flight.
C25_LoadingWhileInFlight ==
    isLoadingAssessmentData <=> (\E i \in 1..Len(calls) : calls[i].pc = "awaiting")

----------------------------------------------------------------------------
(* The resolver on cyclic lists and its variants *)

\* the titles of a list of names, as a set
NamesIn(names) == {names[i] : i \in 1..Len(names)}

\* C26: on every unit list with unique unit names, self-referential and
\* cyclic ones included, the rollup list holds each unit name at most once.
C26_NoDuplicates ==
    pc = "done" =>
        \A i, j \in 1..Len(rollupOrgs) : rollupOrgs[i] = rollupOrgs[j] => i = j

\* u is k parent-hops below a
RECURSIVE HopsTo(_, _, _)
HopsTo(u, a, k) ==
    IF k = 0 THEN u = a
    ELSE \E i \in 1..Len(organizationStructure) :
            /\ organizationStructure[i].Title = u
            /\ organizationStructure[i].ParentOrg # Null
            /\ HopsTo(organizationStructure[i].ParentOrg, a, k - 1)

\* no unit is its own ancestor
Acyclic ==
    \A i \in 1..Len(organizationStructure) :
        \A k \in 1..Len(organizationStructure) :
            ~HopsTo(organizationStructure[i].Title, organizationStructure[i].Title, k)

\* getAllDescendants(selectedOrg, organizationStructure, maxDepthArg) returned
Descended == pc = "done" /\ rollupOrgs = <<>>

\* C27: on every acyclic unit list and for every bound d >= 0,
\* getAllDescendants(root, units, d) holds every unit whose parent chain
\* reaches the root in 1..d hops (the descent ends only where a unit has no
\* children or at the bound), and with d = 0 it returns the empty list.
C27_DescendantsComplete ==
    (Descended /\ Acyclic) =>
        /\ \A i \in 1..Len(organizationStructure) :
              (\E k \in 1..maxDepthArg : ChainTo(organizationStructure[i].Title, k))
                 => organizationStructure[i].Title \in NamesIn(descendants)
        /\ maxDepthArg = 0 => descendants = <<>>

\* a chain of three units below the root, bound 3: all three are returned
C27_Witness ==
    /\ Descended
    /\ Acyclic
    /\ organizationStructure =
          << Unit("HR Department", OtherUnit),
             Unit("Recruiting Team", "HR Department"),
             Unit("Benefits Team", "Recruiting Team") >>
    /\ selectedOrg = OtherUnit
    /\ maxDepthArg = 3
    /\ descendants = <<"HR Department", "Recruiting Team", "Benefits Team">>

\* C28: for every root and every unit list, cyclic ones included,
\* getAllDescendants(root, units, 2) returns the same sequence, elements and
\* order, as getChildOrganizations(root, units).
C28_DepthTwoIsChildOrganizations ==
    (Descended /\ maxDepthArg = 2) =>
        descendants = getChildOrganizations(selectedOrg, organizationStructure)

\* two units that are each other's parent and a second child of the root:
\* children in list order, then the root as its own grandchild
C28_Witness ==
    /\ Descended
    /\ maxDepthArg = 2
    /\ organizationStructure =
          << Unit("HR Department", "Recruiting Team"),
             Unit("Recruiting Team", "HR Department"),
             Unit("Benefits Team", "HR Department") >>
    /\ selectedOrg = "HR Department"
    /\ descendants = <<"Recruiting Team", "Benefits Team", "HR Department">>

----------------------------------------------------------------------------
(* Ranges *)

\* 1.00 .. 5.00
InScale(v) == v >= 100 /\ v <= 500

\* C29: after a rollup over any record set every field average lies in
\* [1, 5], every section average and the overall average are 0 or lie in
\* [1, 5], and the floored score is an integer in 0..5.
C29_ScoresInRange ==
    pc = "done" =>
        /\ \A questionId \in DOMAIN fieldAverages : InScale(fieldAverages[questionId])
        /\ \A i \in 1..Len(sections) :
              sections[i].averageScore = 0 \/ InScale(sections[i].averageScore)
        /\ overallAverage = 0 \/ InScale(overallAverage)
        /\ overallScore \in 0..5

\* Optimal and an unknown label average 3.00 in one section, the other
\* section has no data
C29_Witness ==
    /\ pc = "done"
    /\ Len(assessmentRecords) = 2
    /\ \E questionId \in DOMAIN fieldAverages : fieldAverages[questionId] = 300
    /\ \E i \in 1..Len(sections) : sections[i].averageScore = 0
    /\ \E i \in 1..Len(sections) : sections[i].averageScore >= 100
    /\ overallAverage >= 100
    /\ overallScore >= 1

----------------------------------------------------------------------------
(* The exclusion variant *)

\* the unit of that name is flagged ExcludeFromRollup
Flagged(title) ==
    \E i \in 1..Len(organizationStructure) :
        /\ organizationStructure[i].Title = title
        /\ organizationStructure[i].ExcludeFromRollup

\* C30 as stated: in the exclusion variant no organization flagged
\* ExcludeFromRollup appears in the returned rollup list, for every selected
\* organization and every unit list.
C30_NoFlaggedUnit ==
    pc = "done" => \A i \in 1..Len(rollupOrgs) : ~Flagged(rollupOrgs[i])

\* C30 amended: no organization flagged ExcludeFromRollup appears among the
\* children and grandchildren of the returned rollup list; the selected
\* organization is its first element whether it is flagged or not.
C30_NoFlaggedChild ==
    pc = "done" =>
        /\ Len(rollupOrgs) >= 1 /\ rollupOrgs[1] = selectedOrg
        /\ \A i \in 2..Len(rollupOrgs) : ~Flagged(rollupOrgs[i])

\* a flagged root with a flagged child and a child that is not flagged
C30_Witness ==
    /\ pc = "done"
    /\ organizationStructure =
          << ExcludableUnit("HR Department", Null, TRUE),
             ExcludableUnit("Recruiting Team", "HR Department", TRUE),
             ExcludableUnit("Benefits Team", "HR Department", FALSE) >>
    /\ selectedOrg = "HR Department"
    /\ rollupOrgs = <<"HR Department", "Benefits Team">>

====
